---- MODULE Spec2Model ----
(***************************************************************************)
(* A model of RunMe.py, the card-collection price updater: the script      *)
(* validates the run mode, loads one sheet of mtg_collection.xlsx into a   *)
(* data frame, normalises three columns, selects the rows to refresh,      *)
(* resolves each selected card's price at the provider (exact lookup,      *)
(* then fuzzy search), stores price, total and date, sums the totals and   *)
(* writes the frame back over the sheet.                                   *)
(*                                                                         *)
(* Text is a sequence of one-character strings, money is in cents, time    *)
(* is in ticks of 1/TicksPerDay of a day, a calendar date is a day number. *)
(* A cell is a record [t, v]: t names the Python type of the value.        *)
(***************************************************************************)
EXTENDS Integers, Sequences, FiniteSets, TLC

VARIABLES
    pc,             \* the script's position
    run_mode,       \* the run mode typed by the user (stripped, lowercased)
    sheet_found,    \* whether the workbook holds the sheet the user named
    ncols,          \* the number of columns pd.read_excel finds in the sheet at load
    ws,             \* the stored sheet's data rows (sheet row 2 and below)
    total_cell,     \* the stored cells I1 and J1
    df,             \* the data frame
    rows_to_update, \* the selected rows (a copy made at selection)
    i,              \* the update loop's position in rows_to_update
    req,            \* the provider request last sent
    resp,           \* the provider response being handled
    new_price,      \* the value returned by get_card_price
    total_sum,      \* the collection value
    now,            \* the wall clock, in ticks
    ticks,          \* how often the clock has advanced
    last_net        \* the last of: a provider request, a rate-limit delay

vars == <<pc, run_mode, sheet_found, ncols, ws, total_cell, df, rows_to_update,
          i, req, resp, new_price, total_sum, now, ticks, last_net>>

-----------------------------------------------------------------------------
(* Bounds of the model *)

\* The most data rows a stored sheet holds below an optional leading total row.
MaxRows == 2

\* Clock ticks in a day.
TicksPerDay == 2

\* How often the clock may advance during a run.
MaxTicks == 1

-----------------------------------------------------------------------------
(* Program constants *)

\* len(EXPECTED_COLUMNS)
ExpectedColumns == 8

\* should_update_row: (datetime.today() - last_updated).days > 30
AgedDays == 30

\* valid_modes
valid_modes == {"all", "checked", "aged", "empty"}

\* response.status_code == 200
StatusOk == 200

-----------------------------------------------------------------------------
(* Text *)

UpperCase == <<"A","B","C","D","E","F","G","H","I","J","K","L","M",
               "N","O","P","Q","R","S","T","U","V","W","X","Y","Z">>
LowerCase == <<"a","b","c","d","e","f","g","h","i","j","k","l","m",
               "n","o","p","q","r","s","t","u","v","w","x","y","z">>

LowerChar(c) ==
    IF \E k \in 1..Len(UpperCase) : UpperCase[k] = c
    THEN LowerCase[CHOOSE k \in 1..Len(UpperCase) : UpperCase[k] = c]
    ELSE c

\* str.lower()
Lower(s) == [k \in 1..Len(s) |-> LowerChar(s[k])]

\* str.strip()
Strip(s) ==
    LET keep == {k \in 1..Len(s) : s[k] # " "}
    IN  IF keep = {} THEN <<>>
        ELSE SubSeq(s, CHOOSE k \in keep : \A m \in keep : k <= m,
                       CHOOSE k \in keep : \A m \in keep : k >= m)

\* str.replace(' ', '+')
SpaceToPlus(s) == [k \in 1..Len(s) |-> IF s[k] = " " THEN "+" ELSE s[k]]

TotalValueText == <<"T","O","T","A","L"," ","V","A","L","U","E">>
NotFoundText == <<"N","o","t"," ","F","o","u","n","d">>

-----------------------------------------------------------------------------
(* Cells *)

NaN == [t |-> "nan", v |-> 0]             \* an empty cell, NaN, NaT
CBool(b) == [t |-> "bool", v |-> b]
CInt(n) == [t |-> "int", v |-> n]
CFloat(c) == [t |-> "float", v |-> c]      \* c cents
CStr(s) == [t |-> "str", v |-> s]
DateStr(d) == [t |-> "datestr", v |-> d]  \* the text MM/DD/YYYY of day d
Ts(k) == [t |-> "ts", v |-> k]            \* a timestamp, tick k
NotFound == CStr(NotFoundText)

\* pd.isna / pd.notna
isna(c) == c.t = "nan"

\* str(value)
PyStr(c) ==
    CASE c.t = "str" -> c.v
      [] c.t = "bool" -> IF c.v THEN <<"T","r","u","e">> ELSE <<"F","a","l","s","e">>
      [] c.t = "nan" -> <<"n","a","n">>
      [] OTHER -> <<"#">>

\* bool(value), as Series.astype(bool) applies it
Truthy(c) ==
    CASE c.t = "bool" -> c.v
      [] c.t = "int" -> c.v # 0
      [] c.t = "float" -> c.v # 0
      [] c.t = "str" -> c.v # <<>>
      [] OTHER -> TRUE

\* pd.to_datetime(value, errors="coerce")
to_datetime(c) ==
    CASE c.t = "ts" -> c
      [] c.t = "datestr" -> Ts(c.v * TicksPerDay)
      [] OTHER -> NaN

\* .strftime("%m/%d/%Y")
strftime(c) == IF c.t = "ts" THEN DateStr(c.v \div TicksPerDay) ELSE NaN

\* pd.to_numeric(value, errors="coerce") then fillna(1).astype(int)
ToQuantity(c) ==
    CASE c.t = "int" -> c
      [] c.t = "float" -> CInt(c.v \div 100)
      [] OTHER -> CInt(1)

-----------------------------------------------------------------------------
(* Rows, the stored sheet and the data frame *)

\* One data row of the sheet: the eight columns of EXPECTED_COLUMNS, and id,
\* the position the row had in the stored sheet when the run began (kept only
\* to tell rows apart; the program never reads it).
Row(id, run, name, set, num, qty, price, total, lu) ==
    [id |-> id, Run |-> run, Name |-> name, Set |-> set, SetNum |-> num,
     Quantity |-> qty, Price |-> price, TotalPrice |-> total, LastUpdated |-> lu]

\* A row of the data frame: the sheet row under its index label.
FrameRow(label, r) ==
    [index |-> label, id |-> r.id, Run |-> r.Run, Name |-> r.Name, Set |-> r.Set,
     SetNum |-> r.SetNum, Quantity |-> r.Quantity, Price |-> r.Price,
     TotalPrice |-> r.TotalPrice, LastUpdated |-> r.LastUpdated]

\* The cells ws.cell(...) writes for a row of the frame (itertuples(index=False)).
SheetRow(f) ==
    Row(f.id, f.Run, f.Name, f.Set, f.SetNum, f.Quantity, f.Price, f.TotalPrice,
        f.LastUpdated)

\* The day the run starts on, and the clock at the start: the last tick of it.
StartDay == AgedDays + 1
StartNow == StartDay * TicksPerDay + (TicksPerDay - 1)

\* A legacy total row: "TOTAL VALUE" in the first column of sheet row 2.
LeadingTotalRow ==
    Row(0, CStr(<<" ","T","o","t","a","l"," ","V","a","l","u","e">>), NaN, NaN, NaN,
        NaN, NaN, CFloat(25), NaN)

\* The rows a sheet is drawn from (id 0: set when the sheet is built).
BodyRows ==
    { \* an old total row, labelled in the Name column
      Row(0, NaN, CStr(TotalValueText), NaN, NaN, NaN, NaN, CFloat(25), NaN),
      \* a checked card never priced, its set code in upper case with spaces
      Row(0, CBool(TRUE), CStr(<<"A"," ","b">>), CStr(<<" ","M"," ","H">>),
          CStr(<<"7">>), CInt(2), NotFound, NotFound, NaN),
      \* priced AgedDays days before the start day (text date), no quantity,
      \* its collector number a number cell
      Row(0, CBool(FALSE), CStr(<<"C">>), NaN, CInt(7), NaN, CFloat(10), CFloat(10),
          DateStr(StartDay - AgedDays)),
      \* priced the day before that (a date cell with a time of day), blank set
      Row(0, CBool(FALSE), CStr(<<"D">>), CStr(<<" ">>), NaN, CInt(3), NaN, NaN,
          Ts((StartDay - AgedDays - 1) * TicksPerDay + 1)),
      \* a date that does not parse
      Row(0, CBool(TRUE), CStr(<<"E">>), CStr(<<"m">>), NaN, CStr(<<"x">>),
          CFloat(5), CFloat(5), CStr(<<"?">>)) }

BodySeqs == UNION {[1..n -> BodyRows] : n \in 0..MaxRows}

WithIds(rows) == [k \in 1..Len(rows) |-> [rows[k] EXCEPT !.id = k]]

\* The sheets a run may find: an optional leading total row, then data rows.
Sheets == {WithIds(b) : b \in BodySeqs} \cup {WithIds(<<LeadingTotalRow>> \o b) : b \in BodySeqs}

\* The column counts a run may find.
ColumnCounts == {ExpectedColumns - 1, ExpectedColumns, ExpectedColumns + 2}

EmptyTotalCell == [label |-> NaN, value |-> NaN]

-----------------------------------------------------------------------------
(* load_excel_sheet *)

\* The frame pd.read_excel builds: the data rows under index labels 0, 1, ...
read_excel(sheet) == [k \in 1..Len(sheet) |-> FrameRow(k - 1, sheet[k])]

\* df.iloc[1:].reset_index(drop=True)
DropFirst(frame) ==
    [k \in 1..(Len(frame) - 1) |-> [frame[k + 1] EXCEPT !.index = k - 1]]

\* str(df.iloc[0, 0]).strip().lower() == "total value"
LeadsWithTotal(frame) == Lower(Strip(PyStr(frame[1].Run))) = Lower(TotalValueText)

\* CutColumns that takes any column count for the expected one.
CutColumns_any(n) == ExpectedColumns

\* The column count after the frame is cut to its first eight columns.
CutColumns(n) == IF n > ExpectedColumns THEN ExpectedColumns ELSE n

\* load_excel_sheet: [status, df]. "exit" is a reported error (exit()), "raise"
\* an exception the function does not catch.
load_excel_sheet(found, sheet, n) ==
    IF ~found THEN [status |-> "exit", df |-> <<>>]            \* ValueError, caught
    ELSE IF sheet = <<>> THEN [status |-> "raise", df |-> <<>>] \* iloc[0, 0]: IndexError
    ELSE LET frame == IF LeadsWithTotal(read_excel(sheet))
                      THEN DropFirst(read_excel(sheet))
                      ELSE read_excel(sheet)
         IN  IF CutColumns(n) # ExpectedColumns
             THEN [status |-> "exit", df |-> <<>>]
             ELSE [status |-> "ok", df |-> frame]

-----------------------------------------------------------------------------
(* Column normalisation and row selection *)

\* NormalizeRow that also clears a price that is not a number.
NormalizeRow_clear_price(f) ==
    [f EXCEPT !.Run = CBool(Truthy(f.Run)),
              !.Quantity = ToQuantity(f.Quantity),
              !.Price = IF f.Price.t = "float" THEN f.Price ELSE NaN,
              !.LastUpdated = strftime(to_datetime(f.LastUpdated))]

\* Lines 130-136: Run to bool, Quantity to int, Last Updated to MM/DD/YYYY text.
NormalizeRow(f) ==
    [f EXCEPT !.Run = CBool(Truthy(f.Run)),
              !.Quantity = ToQuantity(f.Quantity),
              !.LastUpdated = strftime(to_datetime(f.LastUpdated))]

\* df[df["Name"] != "TOTAL VALUE"]
NotTotalRow(f) == f.Name # CStr(TotalValueText)

\* (datetime.today() - last_updated).days
ElapsedDays(clock, last_updated) == (clock - last_updated.v) \div TicksPerDay

\* should_update_row with >= for >.
should_update_row_ge(row, mode, clock) ==
    LET last_updated == to_datetime(row.LastUpdated)
    IN  IF mode = "all" THEN TRUE
        ELSE IF mode = "checked" /\ row.Run = CBool(TRUE) THEN TRUE
        ELSE IF mode = "aged" /\ ~isna(last_updated)
             THEN ElapsedDays(clock, last_updated) >= AgedDays
        ELSE IF mode = "empty" THEN isna(row.Price) \/ row.Price = NotFound
        ELSE FALSE

should_update_row(row, mode, clock) ==
    LET last_updated == to_datetime(row.LastUpdated)
    IN  IF mode = "all" THEN TRUE
        ELSE IF mode = "checked" /\ row.Run = CBool(TRUE) THEN TRUE
        ELSE IF mode = "aged" /\ ~isna(last_updated)
             THEN ElapsedDays(clock, last_updated) > AgedDays
        ELSE IF mode = "empty" THEN isna(row.Price) \/ row.Price = NotFound
        ELSE FALSE

\* Lines 127-139: the normalised frame without its TOTAL VALUE rows.
PrepareFrame(frame) ==
    SelectSeq([k \in 1..Len(frame) |-> NormalizeRow(frame[k])], NotTotalRow)

\* Line 142
SelectRows(frame, mode, clock) ==
    LET Chosen(f) == should_update_row(f, mode, clock)
    IN  SelectSeq(frame, Chosen)

-----------------------------------------------------------------------------
(* The provider and the Price Resolver *)

None == [t |-> "none", v |-> 0]          \* Python's None; a parameter not sent
Absent == [t |-> "absent", v |-> 0]      \* a key the JSON object does not hold
Null == [t |-> "null", v |-> 0]          \* JSON null
Obj(usd) == [t |-> "obj", v |-> usd]     \* a prices object: its usd entry
NumStr(c) == [t |-> "numstr", v |-> c]   \* text that float() reads as c cents
Raise(e) == [t |-> "raise", v |-> e]     \* an exception

\* The card records a response may carry, by their "prices" entry.
Cards ==
    { [prices |-> Absent], [prices |-> Null], [prices |-> Obj(Absent)],
      [prices |-> Obj(Null)], [prices |-> Obj(CStr(<<"x">>))],
      [prices |-> Obj(NumStr(10))] }

NoCard == [prices |-> Absent]
NoData == [t |-> "nodata", v |-> <<>>]
Data(list) == [t |-> "list", v |-> list]

\* The responses to the exact lookup: a card, or a failure status.
ExactResponses ==
    {[status |-> StatusOk, card |-> c] : c \in Cards}
        \cup {[status |-> 404, card |-> NoCard]}

\* The responses to the search: a body with or without a "data" list.
FuzzyResponses ==
    {[status |-> StatusOk, data |-> Data(<<c>>)] : c \in Cards}
        \cup { [status |-> StatusOk, data |-> Data(<<>>)],
               [status |-> StatusOk, data |-> NoData],
               [status |-> StatusOk,
                data |-> Data(<<[prices |-> Obj(Null)], [prices |-> Obj(NumStr(10))]>>)],
               [status |-> 404, data |-> NoData] }

\* float(data.get("prices", {}).get("usd", "N/A") or 0)
ExtractUsd(card) ==
    IF card.prices.t = "null" THEN Raise("AttributeError")   \* None.get
    ELSE LET usd == IF card.prices.t = "absent" THEN Absent ELSE card.prices.v
             value == IF usd.t = "absent" THEN CStr(<<"N","/","A">>) ELSE usd
             arg == IF value.t = "null" \/ value = CStr(<<>>) THEN CInt(0) ELSE value
         IN  CASE arg.t = "int" -> CFloat(arg.v * 100)
               [] arg.t = "numstr" -> CFloat(arg.v)
               [] OTHER -> Raise("ValueError")

\* The parameters of the exact lookup (lines 80-84).
ExactParams(name, set_name, set_number) ==
    [kind |-> "exact", exact |-> name,
     set |-> IF set_name # None /\ set_name.v # <<>> THEN CStr(Lower(set_name.v)) ELSE None,
     collector_number |-> IF set_number # None /\ set_number.v # <<>>
                          THEN set_number ELSE None]

\* The search request (line 97).
FuzzyQuery(name) == [kind |-> "fuzzy", q |-> SpaceToPlus(name.v)]

\* fuzzy_search that prices an empty result at 0.0.
fuzzy_search_zero(r) ==
    IF r.status = StatusOk /\ r.data.t = "list"
    THEN IF r.data.v # <<>> THEN ExtractUsd(r.data.v[1]) ELSE CFloat(0)
    ELSE NotFound

\* fuzzy_search, from its response on (lines 100-107).
fuzzy_search(r) ==
    IF r.status = StatusOk /\ r.data.t = "list" /\ r.data.v # <<>>
    THEN ExtractUsd(r.data.v[1])
    ELSE NotFound

\* row[col] if pd.notna(row[col]) and row[col].strip() else None (lines 150-151)
OptionalText(c) ==
    IF isna(c) THEN None
    ELSE IF c.t # "str" THEN Raise("AttributeError")
    ELSE IF Strip(c.v) # <<>> THEN c ELSE None

-----------------------------------------------------------------------------
(* The update of a row, the collection value and the write *)

\* update_row with the quantity left out of the total.
update_row_no_quantity(frame, label, quantity, price, clock) ==
    [k \in 1..Len(frame) |->
        IF frame[k].index = label
        THEN [frame[k] EXCEPT
                !.Price = price,
                !.TotalPrice = IF price.t = "float" THEN price ELSE NotFound,
                !.LastUpdated = strftime(Ts(clock))]
        ELSE frame[k]]

\* Lines 156-158, for the row under index label `label`.
update_row(frame, label, quantity, price, clock) ==
    [k \in 1..Len(frame) |->
        IF frame[k].index = label
        THEN [frame[k] EXCEPT
                !.Price = price,
                !.TotalPrice = IF price.t = "float"
                               THEN CFloat(price.v * quantity.v) ELSE NotFound,
                !.LastUpdated = strftime(Ts(clock))]
        ELSE frame[k]]

\* Series.replace("Not Found", 0)
ReplaceNotFound(c) == IF c = NotFound THEN CInt(0) ELSE c

\* Series.sum(): the numbers added up, NaN skipped.
RECURSIVE SumCells(_)
SumCells(cells) ==
    IF cells = <<>> THEN 0
    ELSE (IF isna(Head(cells)) THEN 0
          ELSE IF Head(cells).t = "int" THEN Head(cells).v * 100
          ELSE Head(cells).v)
         + SumCells(Tail(cells))

\* TotalSum over the Price column instead of Total Price.
TotalSum_of_price(frame) ==
    SumCells([k \in 1..Len(frame) |-> ReplaceNotFound(frame[k].Price)])

\* df["Total Price"].replace("Not Found", 0).sum(), in cents
TotalSum(frame) ==
    SumCells([k \in 1..Len(frame) |-> ReplaceNotFound(frame[k].TotalPrice)])

\* Lines 175-177: the frame's rows over sheet rows 2, 3, ...; what lies below
\* the last frame row is not written.
Overwrite(sheet, frame) ==
    [k \in 1..Len(sheet) |-> IF k <= Len(frame) THEN SheetRow(frame[k]) ELSE sheet[k]]

\* wait_for_file's max_attempts
max_attempts == 10

NoReq == [kind |-> "none"]
NoResp == [status |-> 0]

Init ==
    /\ pc = "start"
    /\ run_mode \in valid_modes \cup {"bogus"}
    /\ sheet_found \in BOOLEAN
    /\ ncols \in ColumnCounts
    /\ ws \in Sheets
    /\ total_cell = IF ncols > ExpectedColumns
                    THEN [label |-> CStr(TotalValueText), value |-> CFloat(25)]
                    ELSE EmptyTotalCell
    /\ df = <<>>
    /\ rows_to_update = <<>>
    /\ i = 0
    /\ req = NoReq
    /\ resp = NoResp
    /\ new_price = NaN
    /\ total_sum = 0
    /\ now = StartNow
    /\ ticks = 0
    /\ last_net = "none"

-----------------------------------------------------------------------------
(* The script, step by step *)

\* Lines 115-118: the run mode is checked before anything is loaded.
ValidateMode ==
    /\ pc = "start"
    /\ pc' = IF run_mode \in valid_modes THEN "load" ELSE "exit"
    /\ UNCHANGED <<run_mode, sheet_found, ncols, ws, total_cell, df, rows_to_update,
                   i, req, resp, new_price, total_sum, now, ticks, last_net>>

\* Line 122: load_excel_sheet.
LoadSheet ==
    /\ pc = "load"
    /\ LET r == load_excel_sheet(sheet_found, ws, ncols)
       IN  /\ pc' = CASE r.status = "ok" -> "prepare"
                      [] r.status = "exit" -> "exit"
                      [] OTHER -> "crashed"
           /\ df' = r.df
    /\ UNCHANGED <<run_mode, sheet_found, ncols, ws, total_cell, rows_to_update,
                   i, req, resp, new_price, total_sum, now, ticks, last_net>>

\* Lines 127-142: normalise the columns, drop TOTAL VALUE rows, select.
Prepare ==
    /\ pc = "prepare"
    /\ df' = PrepareFrame(df)
    /\ rows_to_update' = SelectRows(PrepareFrame(df), run_mode, now)
    /\ i' = 1
    /\ pc' = "loop"
    /\ UNCHANGED <<run_mode, sheet_found, ncols, ws, total_cell, req, resp,
                   new_price, total_sum, now, ticks, last_net>>

\* Line 148, the loop is over.
LoopDone ==
    /\ pc = "loop"
    /\ i > Len(rows_to_update)
    /\ pc' = "total"
    /\ UNCHANGED <<run_mode, sheet_found, ncols, ws, total_cell, df, rows_to_update,
                   i, req, resp, new_price, total_sum, now, ticks, last_net>>

\* Lines 149-154 and 80-86: the next row's exact lookup is sent.
SendExact ==
    /\ pc = "loop"
    /\ i <= Len(rows_to_update)
    /\ LET row == rows_to_update[i]
           set_name == OptionalText(row.Set)
           set_number == OptionalText(row.SetNum)
       IN  IF set_name.t = "raise" \/ set_number.t = "raise"
           THEN /\ pc' = "crashed"
                /\ UNCHANGED <<req, last_net>>
           ELSE /\ req' = ExactParams(row.Name, set_name, set_number)
                /\ last_net' = "request"
                /\ pc' = "exact"
    /\ UNCHANGED <<run_mode, sheet_found, ncols, ws, total_cell, df, rows_to_update,
                   i, resp, new_price, total_sum, now, ticks>>

\* Lines 88-90: the exact lookup succeeded.
ExactFound ==
    /\ pc = "exact"
    /\ \E r \in ExactResponses :
        /\ r.status = StatusOk
        /\ resp' = r
        /\ IF ExtractUsd(r.card).t = "raise"
           THEN pc' = "crashed" /\ UNCHANGED new_price
           ELSE pc' = "store" /\ new_price' = ExtractUsd(r.card)
    /\ UNCHANGED <<run_mode, sheet_found, ncols, ws, total_cell, df, rows_to_update,
                   i, req, total_sum, now, ticks, last_net>>

\* Lines 92-98: the exact lookup failed and the search is sent.
ExactFailed ==
    /\ pc = "exact"
    /\ \E r \in ExactResponses :
        /\ r.status # StatusOk
        /\ resp' = r
    /\ IF rows_to_update[i].Name.t # "str"
       THEN pc' = "crashed" /\ UNCHANGED <<req, last_net>>   \* name.replace
       ELSE /\ req' = FuzzyQuery(rows_to_update[i].Name)
            /\ last_net' = "request"
            /\ pc' = "fuzzy"
    /\ UNCHANGED <<run_mode, sheet_found, ncols, ws, total_cell, df, rows_to_update,
                   i, new_price, total_sum, now, ticks>>

\* Lines 100-107: the search's response.
FuzzyAnswered ==
    /\ pc = "fuzzy"
    /\ \E r \in FuzzyResponses :
        /\ resp' = r
        /\ IF fuzzy_search(r).t = "raise"
           THEN pc' = "crashed" /\ UNCHANGED new_price
           ELSE pc' = "store" /\ new_price' = fuzzy_search(r)
    /\ UNCHANGED <<run_mode, sheet_found, ncols, ws, total_cell, df, rows_to_update,
                   i, req, total_sum, now, ticks, last_net>>

\* Lines 156-158: price, total and date of the row are stored.
StoreRow ==
    /\ pc = "store"
    /\ df' = update_row(df, rows_to_update[i].index, rows_to_update[i].Quantity,
                        new_price, now)
    /\ resp' = NoResp
    /\ pc' = "sleep"
    /\ UNCHANGED <<run_mode, sheet_found, ncols, ws, total_cell, rows_to_update,
                   i, req, new_price, total_sum, now, ticks, last_net>>

\* Line 161: time.sleep(0.1), and on to the next row.
Sleep ==
    /\ pc = "sleep"
    /\ last_net' = "delay"
    /\ i' = i + 1
    /\ pc' = "loop"
    /\ UNCHANGED <<run_mode, sheet_found, ncols, ws, total_cell, df, rows_to_update,
                   req, resp, new_price, total_sum, now, ticks>>

\* Line 164
ComputeTotal ==
    /\ pc = "total"
    /\ total_sum' = TotalSum(df)
    /\ pc' = "wait"
    /\ UNCHANGED <<run_mode, sheet_found, ncols, ws, total_cell, df, rows_to_update,
                   i, req, resp, new_price, now, ticks, last_net>>

\* Lines 167 and 18-30: the file opens after `locked` failed attempts, or the
\* script gives up after max_attempts.
WaitForFile ==
    /\ pc = "wait"
    /\ \E locked \in 0..max_attempts :
        pc' = IF locked < max_attempts THEN "write" ELSE "exit"
    /\ UNCHANGED <<run_mode, sheet_found, ncols, ws, total_cell, df, rows_to_update,
                   i, req, resp, new_price, total_sum, now, ticks, last_net>>

\* Lines 171-184: the frame over the sheet, the total in I1 and J1, save.
WriteBack ==
    /\ pc = "write"
    /\ ws' = Overwrite(ws, df)
    /\ total_cell' = [label |-> CStr(TotalValueText), value |-> CFloat(total_sum)]
    /\ pc' = "done"
    /\ UNCHANGED <<run_mode, sheet_found, ncols, df, rows_to_update, i, req, resp,
                   new_price, total_sum, now, ticks, last_net>>

\* The wall clock advances while the script runs.
Tick ==
    /\ pc \notin {"done", "exit", "crashed"}
    /\ ticks < MaxTicks
    /\ now' = now + 1
    /\ ticks' = ticks + 1
    /\ UNCHANGED <<pc, run_mode, sheet_found, ncols, ws, total_cell, df,
                   rows_to_update, i, req, resp, new_price, total_sum, last_net>>

Next ==
    \/ ValidateMode
    \/ LoadSheet
    \/ Prepare
    \/ LoopDone
    \/ SendExact
    \/ ExactFound
    \/ ExactFailed
    \/ FuzzyAnswered
    \/ StoreRow
    \/ Sleep
    \/ ComputeTotal
    \/ WaitForFile
    \/ WriteBack
    \/ Tick

Spec == Init /\ [][Next]_vars

-----------------------------------------------------------------------------
(* The claims *)

\* The index labels of the selected rows.
SelectedLabels == {rows_to_update[k].index : k \in 1..Len(rows_to_update)}

\* The frame's row under an index label.
FrameRowAt(frame, label) == frame[CHOOSE k \in 1..Len(frame) : frame[k].index = label]

\* C1: when the update loop stores a selected row, the row's price becomes the
\* value the Price Resolver returned, its total becomes price * quantity when
\* that value is a number and Not Found when it is Not Found (so the total is
\* a number iff the price is), and its date becomes the current date.
C1_RowUpdated ==
    [][(pc = "store" /\ pc' = "sleep") =>
        LET r == FrameRowAt(df', rows_to_update[i].index)
        IN  /\ r.Price = new_price
            /\ new_price.t = "float" => r.TotalPrice = CFloat(new_price.v * r.Quantity.v)
            /\ new_price = NotFound => r.TotalPrice = NotFound
            /\ r.TotalPrice.t = "float" <=> r.Price.t = "float"
            /\ r.LastUpdated = DateStr(now \div TicksPerDay)]_vars

\* A row of quantity above one stored with a price above zero.
C1_Witness ==
    /\ pc = "sleep"
    /\ new_price.t = "float" /\ new_price.v > 0
    /\ rows_to_update[i].Quantity.v > 1
    /\ FrameRowAt(df, rows_to_update[i].index).TotalPrice.v > new_price.v

\* The text MM/DD/YYYY of a stored date; nothing when it is missing or does
\* not parse.
DateText(c) ==
    CASE c.t = "datestr" -> c
      [] c.t = "ts" -> DateStr(c.v \div TicksPerDay)
      [] OTHER -> NaN

\* C2 as stated: for every row the Row Selector does not select, the price,
\* total and date written to storage are the values loaded from storage.
C2_UnselectedIdentical ==
    [][(pc = "write" /\ pc' = "done") =>
        \A k \in 1..Len(df) :
            df[k].index \notin SelectedLabels =>
                /\ ws'[k].Price = ws[df[k].id].Price
                /\ ws'[k].TotalPrice = ws[df[k].id].TotalPrice
                /\ ws'[k].LastUpdated = ws[df[k].id].LastUpdated]_vars

\* C2 amended: for every card row the Row Selector does not select, the price
\* and total written to storage are the values loaded from storage, and the
\* date written is the loaded date as MM/DD/YYYY text, or nothing when the
\* loaded date is missing or does not parse.
C2_UnselectedKept ==
    [][(pc = "write" /\ pc' = "done") =>
        \A k \in 1..Len(df) :
            df[k].index \notin SelectedLabels =>
                /\ ws'[k].Price = ws[df[k].id].Price
                /\ ws'[k].TotalPrice = ws[df[k].id].TotalPrice
                /\ ws'[k].LastUpdated = DateText(ws[df[k].id].LastUpdated)]_vars

\* A run is about to write a frame that holds a selected row and an
\* unselected row whose price is Not Found.
C2_Witness ==
    /\ pc = "write"
    /\ rows_to_update # <<>>
    /\ \E k \in 1..Len(df) :
        df[k].index \notin SelectedLabels /\ df[k].Price = NotFound

\* The sum of the numbers among the first n rows' totals.
RECURSIVE NumericTotal(_, _)
NumericTotal(frame, n) ==
    IF n = 0 THEN 0
    ELSE NumericTotal(frame, n - 1)
         + (IF frame[n].TotalPrice.t = "float" THEN frame[n].TotalPrice.v ELSE 0)

\* C3: at the end of a successful run the TOTAL VALUE in storage is the sum of
\* the totals of all rows of the frame, selected or not, as the update loop
\* left them, a total that is Not Found or missing counting 0; computing the
\* sum again on those rows gives that value.
C3_TotalValue ==
    pc = "done" =>
        /\ total_cell.label = CStr(TotalValueText)
        /\ total_cell.value = CFloat(NumericTotal(df, Len(df)))
        /\ TotalSum(df) = total_cell.value.v

\* A finished run over a selected row with a total above zero and an
\* unselected row whose total is Not Found.
C3_Witness ==
    /\ pc = "done"
    /\ \E k \in 1..Len(df) :
        df[k].index \in SelectedLabels /\ df[k].TotalPrice.t = "float"
                                       /\ df[k].TotalPrice.v > 0
    /\ \E k \in 1..Len(df) :
        df[k].index \notin SelectedLabels /\ df[k].TotalPrice = NotFound

\* C4: the search is sent only after the exact lookup answered without
\* success; the resolver returns Not Found exactly when the exact lookup
\* failed and the search failed or listed no result (an empty "data" list or
\* none), a number in every other resolution that completes; and Not Found is
\* not the number 0.0.
C4_Resolution ==
    /\ pc = "fuzzy" => req.kind = "fuzzy" /\ resp.status \notin {0, StatusOk}
    /\ pc = "store" =>
        /\ new_price = NotFound <=>
              /\ req.kind = "fuzzy"
              /\ \/ resp.status # StatusOk
                 \/ resp.data.t # "list"
                 \/ resp.data.v = <<>>
        /\ new_price # NotFound => new_price.t = "float"
        /\ NotFound # CFloat(0) /\ NotFound.t # "float"

\* The resolver returned Not Found on a successful search with no result.
C4_Witness ==
    /\ pc = "store"
    /\ new_price = NotFound
    /\ resp.status = StatusOk

\* C5 as stated: a bad run mode, a missing sheet or a column count other than
\* the expected one ends the run before any provider request and before the
\* frame or the storage is touched.
C5_InvalidStops ==
    (run_mode \notin valid_modes \/ ~sheet_found \/ ncols # ExpectedColumns) =>
        /\ pc \in {"start", "load", "exit", "crashed"}
        /\ req = NoReq /\ last_net = "none"
        /\ df = <<>> /\ rows_to_update = <<>>

\* C5 amended: a bad run mode, a missing sheet or a sheet with fewer columns
\* than expected ends the run before any provider request and before the
\* frame or the storage is touched (a sheet with more columns is read by its
\* first eight).
C5_TooFewStops ==
    (run_mode \notin valid_modes \/ ~sheet_found \/ ncols < ExpectedColumns) =>
        /\ pc \in {"start", "load", "exit", "crashed"}
        /\ req = NoReq /\ last_net = "none"
        /\ df = <<>> /\ rows_to_update = <<>>

\* A run ended by a sheet of too few columns alone.
C5_Witness ==
    /\ pc = "exit"
    /\ run_mode \in valid_modes /\ sheet_found /\ ws # <<>>
    /\ ncols < ExpectedColumns

\* The tick a stored date stands for, and the first tick of its day.
DateTick(c) == IF c.t = "ts" THEN c.v ELSE c.v * TicksPerDay
DayStart(c) == (DateTick(c) \div TicksPerDay) * TicksPerDay

\* Whether a stored date is there and parses.
HasDate(c) == c.t \in {"ts", "datestr"}

\* C6 as stated: under run mode aged a row is selected iff its date is there
\* and more than 30 days, by any amount, lie between the date and the moment
\* of selection; a row with no date or a date that does not parse is not
\* selected.
C6_AgedAnyAmount ==
    [][(pc = "prepare" /\ pc' = "loop" /\ run_mode = "aged") =>
        \A k \in 1..Len(df) :
            NotTotalRow(df[k]) =>
                (df[k].index \in SelectedLabels' <=>
                    /\ HasDate(df[k].LastUpdated)
                    /\ now - DateTick(df[k].LastUpdated) > AgedDays * TicksPerDay)]_vars

\* C6 amended: under run mode aged a row is selected iff its date is there,
\* parses, and at least 31 whole days lie between the start of the date's day
\* and the moment of selection; a row with no date or a date that does not
\* parse is not selected, and neither is a row whose date lies more than 30
\* but less than 31 days back.
C6_AgedWholeDays ==
    [][(pc = "prepare" /\ pc' = "loop" /\ run_mode = "aged") =>
        \A k \in 1..Len(df) :
            NotTotalRow(df[k]) =>
                (df[k].index \in SelectedLabels' <=>
                    /\ HasDate(df[k].LastUpdated)
                    /\ now - DayStart(df[k].LastUpdated)
                          >= (AgedDays + 1) * TicksPerDay)]_vars

\* Under run mode aged one row was selected, and a row with a date was not.
C6_Witness ==
    /\ pc = "loop" /\ i = 1
    /\ run_mode = "aged"
    /\ rows_to_update # <<>>
    /\ \E k \in 1..Len(df) :
        df[k].index \notin SelectedLabels /\ df[k].LastUpdated.t = "datestr"

\* C7: no provider request is sent while the request before it has not been
\* followed by the rate-limit delay.
C7_DelayBetweenRequests ==
    [][(pc' \in {"exact", "fuzzy"} /\ pc' # pc) => last_net # "request"]_vars

\* The card a successful response prices: the exact lookup's card, the
\* search's first result.
HasCard(r) ==
    /\ r.status = StatusOk
    /\ "data" \in DOMAIN r => r.data.t = "list" /\ r.data.v # <<>>
PricedCard(r) == IF "data" \in DOMAIN r THEN r.data.v[1] ELSE r.card

\* A card whose USD price is absent, null or not a number.
NoUsdPrice(card) ==
    \/ card.prices.t \in {"absent", "null"}
    \/ card.prices.t = "obj" /\ card.prices.v.t \in {"absent", "null", "str"}

\* C8: when a successful response carries a card whose USD price is absent,
\* null or not a number, the resolver returns the number 0.0; it raises no
\* error and does not return Not Found.
C8_MissingPriceIsZero ==
    (HasCard(resp) /\ NoUsdPrice(PricedCard(resp))) =>
        /\ pc # "crashed"
        /\ pc = "store" => new_price = CFloat(0)

\* str.replace(" ", "")
RECURSIVE WithoutSpaces(_)
WithoutSpaces(s) ==
    IF s = <<>> THEN <<>>
    ELSE (IF Head(s) = " " THEN <<>> ELSE <<Head(s)>>) \o WithoutSpaces(Tail(s))

\* C9: for a row with a set code, the set sent with the exact lookup is the
\* set code in lower case with every space removed.
C9_SetNormalized ==
    (pc = "exact" /\ rows_to_update[i].Set.t = "str"
                  /\ Strip(rows_to_update[i].Set.v) # <<>>) =>
        req.set = CStr(WithoutSpaces(Lower(rows_to_update[i].Set.v)))

\* A card row of the sheet: not a total row.
IsCardRow(r) ==
    /\ r.Name # CStr(TotalValueText)
    /\ Lower(Strip(PyStr(r.Run))) # Lower(TotalValueText)

\* C10: after a successful run the stored sheet holds as many rows as before,
\* and every card row in it is at the position it had before the run.
C10_RowsStay ==
    [][(pc = "write" /\ pc' = "done") =>
        /\ Len(ws') = Len(ws)
        /\ \A k \in 1..Len(ws') : IsCardRow(ws'[k]) => ws'[k].id = k]_vars

====
